---- MODULE Spec2Model ----
(***************************************************************************)
(* A model of scraper.js: the date helpers (getMonthIndex, getDate,        *)
(* dateFormatConversion), the VergeScraper class (scrape, saveToCsv,       *)
(* saveToDatabase) and the runTests driver with its verification pass.     *)
(*                                                                         *)
(* JavaScript strings are sequences of one-character strings, so that      *)
(* formatting, splitting, trimming and parsing are computed character by   *)
(* character as the code computes them.                                    *)
(***************************************************************************)
EXTENDS Integers, Sequences, FiniteSets, Bags, TLC

VARIABLES
    driver,        \* who drives the class: "runTests", "client" or "date"
    pc,            \* the suspension point the driver is at
    failure,       \* reason of the last rejection, "none" if none
    page,          \* the articles the listing page shows
    year,          \* new Date().getFullYear()
    headlines, authors, dates, urls, id,   \* the VergeScraper instance
    openSessions,  \* browser sessions launched and not closed
    i,             \* loop variable of saveToCsv
    file,          \* contents of ddmmyyyy_verge.csv
    createState,   \* CREATE TABLE of saveToDatabase: none, pending, ok, err
    inserts,       \* parameter lists of the INSERTs issued, in issue order
    insertDone,    \* indexes of the issued INSERTs that have run
    lostInsert,    \* some INSERT has failed and left no row
    closeState,    \* db.close() of saveToDatabase: none, pending, done
    dbOpen,        \* the module-level connection is open
    tableExists,   \* verge.db holds the articles table
    table,         \* rows of articles (without the rowid), a bag
    report,        \* what the verification pass evaluated and logged
    countState,    \* SELECT COUNT(*) of runTests: none, pending, done
    countResult,   \* what the count callback saw and logged
    run,           \* number of the process run (1 is the first)
    completed,     \* earlier runs whose inserts all ran
    calls,         \* method calls made by the client
    lastCall,      \* the method the client called last
    rawIn,         \* input of the date conversion under test
    inMonth,       \* month (1..12) rawIn was built from, 0 if none
    inDay,         \* day number rawIn was built from
    dateOut        \* result of the conversion, <<>> before it ran

scraperVars == <<headlines, authors, dates, urls, id>>
dbVars == <<createState, inserts, insertDone, lostInsert, closeState, dbOpen,
           tableExists, table>>
checkVars == <<report, countState, countResult>>
dateVars == <<rawIn, inMonth, inDay, dateOut>>
vars == <<driver, pc, failure, page, year, headlines, authors, dates, urls, id,
          openSessions, i, file, createState, inserts, insertDone, lostInsert, closeState,
          dbOpen, tableExists, table, report, countState, countResult, run,
          completed, calls, lastCall, rawIn, inMonth, inDay, dateOut>>

(***************************************************************************)
(* Bounds of the model.                                                    *)
(***************************************************************************)
MaxBatch == 2      \* articles on the listing page
MaxRuns == 2       \* process runs of the script
MaxCalls == 3      \* method calls of a client of the class
MaxDay == 32       \* largest day number in a generated raw date
Years == {2023, 2024}   \* a common year and a leap year

(***************************************************************************)
(* String primitives of JavaScript.                                        *)
(***************************************************************************)
UpperCase == <<"A", "B", "C", "D", "E", "F", "G", "H", "I", "J", "K", "L", "M", "N", "O", "P", "Q", "R", "S", "T", "U", "V", "W", "X", "Y", "Z">>
LowerCase == <<"a", "b", "c", "d", "e", "f", "g", "h", "i", "j", "k", "l", "m", "n", "o", "p", "q", "r", "s", "t", "u", "v", "w", "x", "y", "z">>
Digits == <<"0", "1", "2", "3", "4", "5", "6", "7", "8", "9">>

IsDigit(c) == \E k \in 1..10 : Digits[k] = c
DigitValue(c) == (CHOOSE k \in 1..10 : Digits[k] = c) - 1
IsSpace(c) == c \in {" ", "\n"}

\* String.prototype.toLowerCase / toUpperCase
toLowerCase(s) ==
    [k \in 1..Len(s) |->
        IF \E j \in 1..26 : UpperCase[j] = s[k]
        THEN LowerCase[CHOOSE j \in 1..26 : UpperCase[j] = s[k]]
        ELSE s[k]]
toUpperCase(s) ==
    [k \in 1..Len(s) |->
        IF \E j \in 1..26 : LowerCase[j] = s[k]
        THEN UpperCase[CHOOSE j \in 1..26 : LowerCase[j] = s[k]]
        ELSE s[k]]

\* String.prototype.substr(0, n)
substr0(s, n) == SubSeq(s, 1, IF Len(s) < n THEN Len(s) ELSE n)

\* String.prototype.startsWith
startsWith(s, p) == Len(s) >= Len(p) /\ SubSeq(s, 1, Len(p)) = p

\* String.prototype.trim
RECURSIVE trimStart(_)
trimStart(s) ==
    IF s # <<>> /\ IsSpace(Head(s)) THEN trimStart(Tail(s)) ELSE s
RECURSIVE trimEnd(_)
trimEnd(s) ==
    IF s # <<>> /\ IsSpace(s[Len(s)]) THEN trimEnd(SubSeq(s, 1, Len(s) - 1)) ELSE s
trim(s) == trimEnd(trimStart(s))

\* String.prototype.split on a one-character separator
RECURSIVE split(_, _)
split(s, sep) ==
    IF \E k \in 1..Len(s) : s[k] = sep
    THEN LET k == CHOOSE j \in 1..Len(s) :
                      s[j] = sep /\ \A h \in 1..(j - 1) : s[h] # sep
         IN <<SubSeq(s, 1, k - 1)>> \o split(SubSeq(s, k + 1, Len(s)), sep)
    ELSE <<s>>

\* NaN, the value of parseInt(undefined), of ToNumber(undefined) and of the
\* fields of an Invalid Date
NaN == -1

NaNText == <<"N", "a", "N">>

\* A non-negative integer interpolated into a template literal
RECURSIVE NatToString(_)
NatToString(n) ==
    IF n < 10 THEN <<Digits[n + 1]>>
    ELSE NatToString(n \div 10) \o <<Digits[(n % 10) + 1]>>
NumberToString(n) == IF n = NaN THEN NaNText ELSE NatToString(n)

\* parseInt of a string: the value of its leading digit run, NaN if it has
\* none; the empty string stands for undefined
RECURSIVE DigitRunValue(_, _)
DigitRunValue(s, acc) ==
    IF s # <<>> /\ IsDigit(Head(s))
    THEN DigitRunValue(Tail(s), 10 * acc + DigitValue(Head(s)))
    ELSE acc
parseInt(s) ==
    IF s # <<>> /\ IsDigit(Head(s)) THEN DigitRunValue(s, 0) ELSE NaN

(***************************************************************************)
(* The date helpers.                                                       *)
(***************************************************************************)
monthNames ==
    << <<"j", "a", "n">>,
       <<"f", "e", "b">>,
       <<"m", "a", "r">>,
       <<"a", "p", "r">>,
       <<"m", "a", "y">>,
       <<"j", "u", "n">>,
       <<"j", "u", "l">>,
       <<"a", "u", "g">>,
       <<"s", "e", "p">>,
       <<"o", "c", "t">>,
       <<"n", "o", "v">>,
       <<"d", "e", "c">> >>

\* The month index (0-based) of the first three characters of the string,
\* NaN (undefined, turned into a number by the Date constructor) if none
getMonthIndexCaseSensitive(month) ==
    IF \E k \in 1..12 : monthNames[k] = substr0(month, 3)
    THEN (CHOOSE k \in 1..12 : monthNames[k] = substr0(month, 3)) - 1
    ELSE NaN
getMonthIndex(month) ==
    IF \E k \in 1..12 : toLowerCase(monthNames[k]) = substr0(toLowerCase(month), 3)
    THEN (CHOOSE k \in 1..12 :
              toLowerCase(monthNames[k]) = substr0(toLowerCase(month), 3)) - 1
    ELSE NaN

\* str.match(/\d+/): the first maximal digit run, <<>> (undefined) if none
RECURSIVE DigitRun(_)
DigitRun(s) ==
    IF s # <<>> /\ IsDigit(Head(s)) THEN <<Head(s)>> \o DigitRun(Tail(s)) ELSE <<>>
RECURSIVE getDate(_)
getDate(str) ==
    IF str = <<>> THEN <<>>
    ELSE IF IsDigit(Head(str)) THEN DigitRun(str)
    ELSE getDate(Tail(str))

\* The calendar of the Date constructor: months are 0-based and a day
\* outside the month rolls into the neighbouring months
IsLeapYear(y) == (y % 4 = 0 /\ y % 100 # 0) \/ y % 400 = 0
DaysInMonth(y, m) ==
    IF m = 1 THEN (IF IsLeapYear(y) THEN 29 ELSE 28)
    ELSE IF m \in {3, 5, 8, 10} THEN 30
    ELSE 31
RECURSIVE MakeDay(_, _, _)
MakeDay(y, m, d) ==
    IF d < 1
    THEN (IF m = 0 THEN MakeDay(y - 1, 11, d + DaysInMonth(y - 1, 11))
          ELSE MakeDay(y, m - 1, d + DaysInMonth(y, m - 1)))
    ELSE IF d > DaysInMonth(y, m)
    THEN (IF m = 11 THEN MakeDay(y + 1, 0, d - DaysInMonth(y, m))
          ELSE MakeDay(y, m + 1, d - DaysInMonth(y, m)))
    ELSE [fullYear |-> y, month |-> m, date |-> d]
\* new Date(y, m, d): an Invalid Date when an argument is NaN
NewDate(y, m, d) ==
    IF m = NaN \/ d = NaN
    THEN [fullYear |-> NaN, month |-> NaN, date |-> NaN]
    ELSE MakeDay(y, m, d)

\* `${date.getFullYear()}/${date.getMonth() + 1}/${date.getDate()}`
FormatDate(date) ==
    NumberToString(date.fullYear) \o <<"/">>
        \o NumberToString(IF date.month = NaN THEN NaN ELSE date.month + 1)
        \o <<"/">> \o NumberToString(date.date)

dateFormatConversion(input) ==
    FormatDate(NewDate(year, getMonthIndex(input), parseInt(getDate(input))))

(***************************************************************************)
(* The listing pages the model scrapes.  Every field is trimmed, as        *)
(* page.evaluate trims it.                                                 *)
(***************************************************************************)
UrlA == <<"h", "t", "t", "p", ":", "a">>
Plain == [headline |-> <<"A">>, url |-> UrlA, author |-> <<"B">>,
          date |-> <<"J", "a", "n", " ", "5">>]
Piped == [headline |-> <<"a", "|", "b">>, url |-> UrlA, author |-> <<"B">>,
          date |-> <<"M", "a", "r", " ", "1", "4">>]
TwoLines == [headline |-> <<"a", "\n", "b">>, url |-> UrlA, author |-> <<"B">>,
             date |-> <<"F", "e", "b", " ", "3", "0">>]
Anonymous == [headline |-> <<"A">>, url |-> <<"f", "t", "p">>, author |-> <<>>,
              date |-> <<"s", "o", "o", "n">>]
Articles == {Plain, Piped, TwoLines, Anonymous}

RECURSIVE SeqsUpTo(_, _)
SeqsUpTo(S, n) ==
    IF n = 0 THEN {<<>>}
    ELSE LET shorter == SeqsUpTo(S, n - 1)
         IN shorter \cup {Append(q, x) : q \in shorter, x \in S}
Pages == SeqsUpTo(Articles, MaxBatch)

\* What the file may hold before the first run: nothing, or stale lines
StaleFile == <<"o", "l", "d", "\n", "9", " ", "|", " ", "x", "\n">>
InitialFiles == {<<>>, StaleFile}

(***************************************************************************)
(* The text sink.                                                          *)
(***************************************************************************)
header == <<"i", "d", " ", "|", " ", "U", "R", "L", " ", "|", " ", "h", "e", "a", "d", "l", "i", "n", "e", " ", "|", " ", "a", "u", "t", "h", "o", "r", " ", "|", " ", "d", "a", "t", "e", "\n">>
Separator == <<" ", "|", " ">>

\* `${id} | ${url} | "${headline}" | ${author} | ${date}\n`
CsvLineWithoutAuthor(n, url, headline, author, date) ==
    NatToString(n) \o Separator \o url \o Separator
        \o <<"\"">> \o headline \o <<"\"">> \o Separator
        \o date \o <<"\n">>
CsvLine(n, url, headline, author, date) ==
    NatToString(n) \o Separator \o url \o Separator
        \o <<"\"">> \o headline \o <<"\"">> \o Separator
        \o author \o Separator \o date \o <<"\n">>

\* The line saveToCsv appends for record k (1-based) when this.id is n
LineOf(k, n) ==
    CsvLine(n, urls[k], headlines[k], authors[k], dateFormatConversion(dates[k]))

(***************************************************************************)
(* The row store.                                                          *)
(***************************************************************************)
\* [url, headline, author, date] of the INSERT for record k (1-based)
InsertParamsNormalized(k) ==
    <<urls[k], headlines[k], authors[k], dateFormatConversion(dates[k])>>
InsertParams(k) == <<urls[k], headlines[k], authors[k], dates[k]>>

AllInsertsDone == insertDone = 1..Len(inserts)

(***************************************************************************)
(* The verification pass of runTests.                                      *)
(***************************************************************************)
\* csvData.toString().split("\n")
CsvLines(data) == split(data, "\n")

\* csvLines[i].trim().split("|").map((field) => field.trim())
Fields(line) ==
    LET raw == split(trim(line), "|")
    IN [k \in 1..Len(raw) |-> trim(raw[k])]

\* console.error under an if: the entry is logged when the condition holds
LogIf(entry, condition) == IF condition THEN {entry} ELSE {}

\* The checks made on one data line and the errors logged for it
CheckLineFirstErrorOnly(line) ==
    LET fields == Fields(line)
    IN IF Len(fields) # 5
       THEN [evaluated |-> {"fields"}, errors |-> {"fields"}]
       ELSE IF parseInt(fields[1]) = NaN
       THEN [evaluated |-> {"fields", "id"}, errors |-> {"id"}]
       ELSE IF ~startsWith(fields[2], <<"h", "t", "t", "p">>)
       THEN [evaluated |-> {"fields", "id", "url"}, errors |-> {"url"}]
       ELSE [evaluated |-> {"fields", "id", "url", "headline", "author", "date"},
             errors |->
                 LogIf("headline", Len(fields[3]) = 0)
                 \cup LogIf("author", Len(fields[4]) = 0)
                 \cup LogIf("date", Len(fields[5]) = 0)]
CheckLine(line) ==
    LET fields == Fields(line)
    IN IF Len(fields) # 5
       THEN [evaluated |-> {"fields"}, errors |-> {"fields"}]
       ELSE [evaluated |-> {"fields", "id", "url", "headline", "author", "date"},
             errors |->
                 LogIf("id", parseInt(fields[1]) = NaN)
                 \cup LogIf("url", ~startsWith(fields[2], <<"h", "t", "t", "p">>))
                 \cup LogIf("headline", Len(fields[3]) = 0)
                 \cup LogIf("author", Len(fields[4]) = 0)
                 \cup LogIf("date", Len(fields[5]) = 0)]

\* The data lines the loop visits: csvLines[1] .. csvLines[length - 2]
DataLines(data) ==
    LET csvLines == CsvLines(data)
    IN IF Len(csvLines) < 3 THEN <<>> ELSE SubSeq(csvLines, 2, Len(csvLines) - 1)

HeaderMatches(data) == trim(CsvLines(data)[1]) = trim(header)

\* The pass over the file: a header mismatch returns from runTests
Verify(data) ==
    IF ~HeaderMatches(data)
    THEN [verified |-> TRUE, headerOk |-> FALSE, lines |-> <<>>]
    ELSE [verified |-> TRUE, headerOk |-> TRUE,
          lines |-> [k \in 1..Len(DataLines(data)) |-> CheckLine(DataLines(data)[k])]]

NoReport == [verified |-> FALSE, headerOk |-> FALSE, lines |-> <<>>]
NoCount == [error |-> FALSE, count |-> 0, passed |-> FALSE]

(***************************************************************************)
(* Initial states.                                                         *)
(***************************************************************************)
\* new VergeScraper()
NewScraper ==
    /\ headlines = <<>>
    /\ authors = <<>>
    /\ dates = <<>>
    /\ urls = <<>>
    /\ id = 0

\* verge.db before the first run, and the connection opened at module load
NewStore ==
    /\ createState = "none"
    /\ inserts = <<>>
    /\ insertDone = {}
    /\ lostInsert = FALSE
    /\ closeState = "none"
    /\ dbOpen = TRUE
    /\ tableExists = FALSE
    /\ table = EmptyBag

NoDateInput ==
    /\ rawIn = <<>>
    /\ inMonth = 0
    /\ inDay = 0
    /\ dateOut = <<>>

\* The script: runTests() has built its scraper and called scrape()
Init ==
    /\ driver = "runTests"
    /\ pc = "launch"
    /\ failure = "none"
    /\ page \in Pages
    /\ year \in Years
    /\ NewScraper
    /\ openSessions = 0
    /\ i = 0
    /\ file \in InitialFiles
    /\ NewStore
    /\ report = NoReport
    /\ countState = "none"
    /\ countResult = NoCount
    /\ run = 1
    /\ completed = 0
    /\ calls = 0
    /\ lastCall = "none"
    /\ NoDateInput

(***************************************************************************)
(* How a method of the class settles.  Under runTests a rejection is the   *)
(* rejection of runTests, and a return runs the statements that follow     *)
(* the await up to the next suspension point.                              *)
(***************************************************************************)
Reject(reason) ==
    /\ failure' = reason
    /\ pc' = IF driver = "runTests" THEN "rejected" ELSE "idle"

\* saveToDatabase: db.run(CREATE TABLE ..., callback) is queued and the
\* method returns
saveToDatabase ==
    /\ createState' = "pending"
    /\ UNCHANGED <<inserts, insertDone, lostInsert, closeState, dbOpen,
                   tableExists, table>>

\* saveToCsv has returned: runTests calls saveToDatabase, which returns at
\* once, and then reads the file
ReturnFromCsv ==
    IF driver = "runTests"
    THEN /\ saveToDatabase
         /\ pc' = "readFile"
    ELSE /\ pc' = "idle"
         /\ UNCHANGED dbVars

(***************************************************************************)
(* scrape                                                                  *)
(***************************************************************************)
\* puppeteer.launch() and browser.newPage(): a browser is started, or the
\* launch fails and there is none
Launch ==
    /\ pc = "launch"
    /\ \/ /\ openSessions' = openSessions + 1
          /\ pc' = "goto"
          /\ UNCHANGED failure
       \/ /\ Reject("launch")
          /\ UNCHANGED openSessions
    /\ UNCHANGED <<driver, page, year, scraperVars, i, file, dbVars,
                   checkVars, run, completed, calls, lastCall, dateVars>>

\* page.goto(...): the navigation succeeds or fails
Goto ==
    /\ pc = "goto"
    /\ \/ /\ pc' = "evaluate"
          /\ UNCHANGED failure
       \/ Reject("goto")
    /\ UNCHANGED <<driver, page, year, scraperVars, openSessions, i, file, dbVars,
                   checkVars, run, completed, calls, lastCall, dateVars>>

\* The arrays after data.forEach pushed every article of the list
PushAll(list) ==
    /\ headlines' = headlines \o [k \in 1..Len(list) |-> list[k].headline]
    /\ authors' = authors \o [k \in 1..Len(list) |-> list[k].author]
    /\ dates' = dates \o [k \in 1..Len(list) |-> list[k].date]
    /\ urls' = urls \o [k \in 1..Len(list) |-> list[k].url]

\* page.evaluate(...): it returns the articles of the page, or throws when an
\* entry of the list lacks one of the four elements; then the data is stored
Evaluate ==
    /\ pc = "evaluate"
    /\ \/ /\ PushAll(page)
          /\ pc' = "close"
          /\ UNCHANGED <<failure, id>>
       \/ /\ Reject("evaluate")
          /\ UNCHANGED scraperVars
    /\ UNCHANGED <<driver, page, year, openSessions, i, file, dbVars, checkVars,
                   run, completed, calls, lastCall, dateVars>>

\* browser.close(); scrape returns and runTests calls saveToCsv, which
\* starts fs.promises.writeFile
CloseBrowser ==
    /\ pc = "close"
    /\ openSessions' = openSessions - 1
    /\ pc' = IF driver = "runTests" THEN "writeFile" ELSE "idle"
    /\ UNCHANGED <<driver, failure, page, year, scraperVars, i, file, dbVars,
                   checkVars, run, completed, calls, lastCall, dateVars>>

(***************************************************************************)
(* saveToCsv                                                               *)
(***************************************************************************)
\* The file after fs.promises.writeFile(filename, header)
WrittenHeader(old) == header

\* writeFile settles and the loop starts at i = 0; with no record it ends
\* at once
WriteHeader ==
    /\ pc = "writeFile"
    /\ \/ /\ file' = WrittenHeader(file)
          /\ i' = 0
          /\ UNCHANGED failure
          /\ IF Len(headlines) = 0
             THEN ReturnFromCsv
             ELSE pc' = "appendFile" /\ UNCHANGED dbVars
       \/ /\ Reject("writeFile")
          /\ UNCHANGED <<i, file, dbVars>>
    /\ UNCHANGED <<driver, page, year, scraperVars, openSessions, checkVars,
                   run, completed, calls, lastCall, dateVars>>

\* One iteration for record i (0-based): ++this.id, the line is built and
\* appendFile settles; after the last record the loop ends and saveToCsv
\* returns
AppendLine ==
    /\ pc = "appendFile"
    /\ i < Len(headlines)
    /\ id' = id + 1
    /\ UNCHANGED <<headlines, authors, dates, urls>>
    /\ \/ /\ file' = file \o LineOf(i + 1, id + 1)
          /\ i' = i + 1
          /\ UNCHANGED failure
          /\ IF i + 1 = Len(headlines)
             THEN ReturnFromCsv
             ELSE pc' = "appendFile" /\ UNCHANGED dbVars
       \/ /\ Reject("appendFile")
          /\ UNCHANGED <<i, file, dbVars>>
    /\ UNCHANGED <<driver, page, year, openSessions, checkVars, run, completed,
                   calls, lastCall, dateVars>>

(***************************************************************************)
(* The callbacks of saveToDatabase, run by the sqlite3 worker pool.        *)
(***************************************************************************)
\* The INSERTs the callback issues, one per record
IssuedInserts == [k \in 1..Len(headlines) |-> InsertParams(k)]

\* CREATE TABLE IF NOT EXISTS has run: on an error the message is logged; on
\* success the callback issues every INSERT and then db.close().  A closed
\* connection fails the statement.
CreateTableDone ==
    /\ createState = "pending"
    /\ \/ /\ dbOpen
          /\ createState' = "ok"
          /\ tableExists' = TRUE
          /\ inserts' = IssuedInserts
          /\ insertDone' = {}
          /\ closeState' = "pending"
          /\ UNCHANGED <<lostInsert, dbOpen, table>>
       \/ /\ createState' = "err"
          /\ UNCHANGED <<inserts, insertDone, lostInsert, closeState, dbOpen,
                         tableExists, table>>
    /\ UNCHANGED <<driver, pc, failure, page, year, scraperVars, openSessions,
                   i, file, checkVars, run, completed, calls, lastCall, dateVars>>

\* One issued INSERT runs; the statements of the batch run in any order.  It
\* adds its row, or fails: db.run is given no callback, the error is dropped
InsertDone ==
    /\ \E k \in (1..Len(inserts)) \ insertDone :
          /\ insertDone' = insertDone \cup {k}
          /\ \/ /\ table' = table (+) SetToBag({inserts[k]})
                /\ UNCHANGED lostInsert
             \/ /\ lostInsert' = TRUE
                /\ UNCHANGED table
    /\ UNCHANGED <<createState, inserts, closeState, dbOpen, tableExists>>
    /\ UNCHANGED <<driver, pc, failure, page, year, scraperVars, openSessions,
                   i, file, checkVars, run, completed, calls, lastCall, dateVars>>

\* db.close() runs once the statements queued before it have run
CloseDone ==
    /\ closeState = "pending"
    /\ AllInsertsDone
    /\ closeState' = "done"
    /\ dbOpen' = FALSE
    /\ UNCHANGED <<createState, inserts, insertDone, lostInsert, tableExists, table>>
    /\ UNCHANGED <<driver, pc, failure, page, year, scraperVars, openSessions,
                   i, file, checkVars, run, completed, calls, lastCall, dateVars>>

(***************************************************************************)
(* The verification pass of runTests.                                      *)
(***************************************************************************)
\* readFile settles; the header and the lines are checked, then the count is
\* queued on a second connection and runTests returns.  When the read fails
\* runTests rejects.
ReadFile ==
    /\ pc = "readFile"
    /\ \/ /\ report' = Verify(file)
          /\ countState' = IF HeaderMatches(file) THEN "pending" ELSE "none"
          /\ pc' = "done"
          /\ UNCHANGED failure
       \/ /\ Reject("readFile")
          /\ UNCHANGED <<report, countState>>
    /\ UNCHANGED <<driver, page, year, scraperVars, openSessions, i, file, dbVars,
                   countResult, run, completed, calls, lastCall, dateVars>>

\* What the callback of SELECT COUNT(*) logs for the rows it is given
CountCallback(rows) ==
    [error |-> FALSE, count |-> rows, passed |-> rows = Len(headlines)]

\* The count runs on what verge.db holds at that moment; without the table
\* the query fails
CountQuery ==
    /\ countState = "pending"
    /\ countState' = "done"
    /\ countResult' =
          IF tableExists
          THEN CountCallback(BagCardinality(table))
          ELSE [error |-> TRUE, count |-> 0, passed |-> FALSE]
    /\ UNCHANGED <<driver, pc, failure, page, year, scraperVars, openSessions,
                   i, file, dbVars, report, run, completed, calls, lastCall,
                   dateVars>>

\* Nothing of the run is pending any more: the process ends
RunOver ==
    /\ pc \in {"done", "rejected"}
    /\ createState # "pending"
    /\ AllInsertsDone
    /\ closeState # "pending"
    /\ countState # "pending"

\* The script is started again: a new process, a new connection, a new
\* scraper; the file and verge.db stay
NextRun ==
    /\ driver = "runTests"
    /\ RunOver
    /\ run < MaxRuns
    /\ run' = run + 1
    /\ completed' = IF createState = "ok" THEN completed + 1 ELSE completed
    /\ pc' = "launch"
    /\ failure' = "none"
    /\ headlines' = <<>>
    /\ authors' = <<>>
    /\ dates' = <<>>
    /\ urls' = <<>>
    /\ id' = 0
    /\ i' = 0
    /\ openSessions' = 0
    /\ createState' = "none"
    /\ inserts' = <<>>
    /\ insertDone' = {}
    /\ closeState' = "none"
    /\ dbOpen' = TRUE
    /\ report' = NoReport
    /\ countState' = "none"
    /\ countResult' = NoCount
    /\ UNCHANGED <<driver, page, year, file, lostInsert, tableExists, table,
                   calls, lastCall, dateVars>>

Next ==
    \/ Launch
    \/ Goto
    \/ Evaluate
    \/ CloseBrowser
    \/ WriteHeader
    \/ AppendLine
    \/ CreateTableDone
    \/ InsertDone
    \/ CloseDone
    \/ ReadFile
    \/ CountQuery
    \/ NextRun

Spec == Init /\ [][Next]_vars

(***************************************************************************)
(* The class driven by a client that calls its methods in any order, one   *)
(* call at a time, and calls saveToDatabase only once the statements of    *)
(* the call before it have run.                                            *)
(***************************************************************************)
InitApi ==
    /\ driver = "client"
    /\ pc = "idle"
    /\ failure = "none"
    /\ page \in Pages
    /\ year \in Years
    /\ NewScraper
    /\ openSessions = 0
    /\ i = 0
    /\ file \in InitialFiles
    /\ NewStore
    /\ report = NoReport
    /\ countState = "none"
    /\ countResult = NoCount
    /\ run = 1
    /\ completed = 0
    /\ calls = 0
    /\ lastCall = "none"
    /\ NoDateInput

CallScrape ==
    /\ pc = "idle"
    /\ calls < MaxCalls
    /\ calls' = calls + 1
    /\ lastCall' = "scrape"
    /\ failure' = "none"
    /\ pc' = "launch"
    /\ UNCHANGED <<driver, page, year, scraperVars, openSessions, i, file, dbVars,
                   checkVars, run, completed, dateVars>>

CallSaveToCsv ==
    /\ pc = "idle"
    /\ calls < MaxCalls
    /\ calls' = calls + 1
    /\ lastCall' = "saveToCsv"
    /\ failure' = "none"
    /\ pc' = "writeFile"
    /\ UNCHANGED <<driver, page, year, scraperVars, openSessions, i, file, dbVars,
                   checkVars, run, completed, dateVars>>

CallSaveToDatabase ==
    /\ pc = "idle"
    /\ calls < MaxCalls
    /\ createState # "pending"
    /\ AllInsertsDone
    /\ closeState # "pending"
    /\ calls' = calls + 1
    /\ lastCall' = "saveToDatabase"
    /\ failure' = "none"
    /\ saveToDatabase
    /\ UNCHANGED <<driver, pc, page, year, scraperVars, openSessions, i, file,
                   checkVars, run, completed, dateVars>>

NextApi ==
    \/ CallScrape
    \/ CallSaveToCsv
    \/ CallSaveToDatabase
    \/ Launch
    \/ Goto
    \/ Evaluate
    \/ CloseBrowser
    \/ WriteHeader
    \/ AppendLine
    \/ CreateTableDone
    \/ InsertDone
    \/ CloseDone

SpecApi == InitApi /\ [][NextApi]_vars

(***************************************************************************)
(* dateFormatConversion on its own, applied to one raw date.               *)
(***************************************************************************)
FullMonthNames ==
    << <<"J", "a", "n", "u", "a", "r", "y">>,
       <<"F", "e", "b", "r", "u", "a", "r", "y">>,
       <<"M", "a", "r", "c", "h">>,
       <<"A", "p", "r", "i", "l">>,
       <<"M", "a", "y">>,
       <<"J", "u", "n", "e">>,
       <<"J", "u", "l", "y">>,
       <<"A", "u", "g", "u", "s", "t">>,
       <<"S", "e", "p", "t", "e", "m", "b", "e", "r">>,
       <<"O", "c", "t", "o", "b", "e", "r">>,
       <<"N", "o", "v", "e", "m", "b", "e", "r">>,
       <<"D", "e", "c", "e", "m", "b", "e", "r">> >>

\* The m-th month name in full and abbreviated, in three letter cases
Spellings(m) ==
    LET full == FullMonthNames[m]
        short == SubSeq(full, 1, 3)
    IN {full, toLowerCase(full), toUpperCase(full),
        short, toLowerCase(short), toUpperCase(short)}

\* Raw dates that begin with a month name and hold a day number
MonthDayDates(m, d) ==
    {name \o sep \o pad \o NatToString(d) \o rest :
        name \in Spellings(m),
        sep \in {<<>>, <<" ">>},
        pad \in {<<>>, <<"0">>},
        rest \in {<<>>, <<",", " ", "7">>}}

\* Raw dates of other shapes
OtherDates ==
    {<<>>,
     <<"s", "o", "o", "n">>,
     <<"M", "a", "r">>,
     <<"1", "4">>,
     <<"1", "4", " ", "M", "a", "r">>,
     <<"n", "o", " ", "d", "a", "t", "e", " ", "h", "e", "r", "e">>}

InitDate ==
    /\ driver = "date"
    /\ pc = "idle"
    /\ failure = "none"
    /\ page = <<>>
    /\ year \in Years
    /\ NewScraper
    /\ openSessions = 0
    /\ i = 0
    /\ file = <<>>
    /\ NewStore
    /\ report = NoReport
    /\ countState = "none"
    /\ countResult = NoCount
    /\ run = 1
    /\ completed = 0
    /\ calls = 0
    /\ lastCall = "none"
    /\ dateOut = <<>>
    /\ \/ /\ inMonth \in 1..12
          /\ inDay \in 0..MaxDay
          /\ rawIn \in MonthDayDates(inMonth, inDay)
       \/ /\ inMonth = 0
          /\ inDay = 0
          /\ rawIn \in OtherDates

Convert ==
    /\ driver = "date"
    /\ dateOut = <<>>
    /\ dateOut' = dateFormatConversion(rawIn)
    /\ UNCHANGED <<driver, pc, failure, page, year, scraperVars, openSessions, i,
                   file, dbVars, checkVars, run, completed, calls, lastCall,
                   rawIn, inMonth, inDay>>

NextDate == Convert

SpecDate == InitDate /\ [][NextDate]_vars

(***************************************************************************)
(* Properties.                                                             *)
(***************************************************************************)
HasPipeOrNewline(s) == \E k \in 1..Len(s) : s[k] \in {"|", "\n"}
Http == <<"h", "t", "t", "p">>
AllChecks == {"fields", "id", "url", "headline", "author", "date"}

\* saveToCsv of the current run of runTests has returned
CsvWritten ==
    /\ driver = "runTests"
    /\ pc \in {"readFile", "done"} \/ (pc = "rejected" /\ failure = "readFile")

RECURSIVE LinesFromOne(_)
LinesFromOne(n) ==
    IF n = 0 THEN <<>> ELSE LinesFromOne(n - 1) \o LineOf(n, n)

\* C2: after every completed call of saveToCsv, however many calls came
\* before it on the same instance, the file is the header followed by one
\* line per record in batch order, the k-th line carrying id k.
C2_IdsRestartAtOne ==
    (driver = "client" /\ pc = "idle" /\ lastCall = "saveToCsv" /\ failure = "none")
        => file = header \o LinesFromOne(Len(headlines))

\* The record k is within the round trip's precondition
WellFormedRecord(k) ==
    /\ headlines[k] # <<>>
    /\ authors[k] # <<>>
    /\ dates[k] # <<>>
    /\ startsWith(urls[k], Http)

\* The file parses back to one row per record, each of 5 non-empty fields
\* with an integer id and an http URL
RoundTrips ==
    LET rows == DataLines(file)
    IN /\ HeaderMatches(file)
       /\ Len(rows) = Len(headlines)
       /\ \A k \in 1..Len(rows) :
             LET fields == Fields(rows[k])
             IN /\ Len(fields) = 5
                /\ \A j \in 1..5 : fields[j] # <<>>
                /\ parseInt(fields[1]) # NaN
                /\ startsWith(fields[2], Http)

\* C3 as claimed: the round trip holds for all field contents, a pipe or a
\* newline in a headline or an author included.
C3_RoundTripAnyContents ==
    (CsvWritten /\ \A k \in 1..Len(headlines) : WellFormedRecord(k))
        => RoundTrips

\* C3: writing a batch whose records have a non-empty headline, author and raw
\* date and an http URL, and whose URLs, headlines and authors hold no pipe
\* and no newline, then parsing the file back yields one row per record,
\* each of 5 non-empty fields with an integer id and an http URL.
C3_RoundTripWithoutSeparators ==
    (/\ CsvWritten
     /\ \A k \in 1..Len(headlines) :
           /\ WellFormedRecord(k)
           /\ ~HasPipeOrNewline(urls[k])
           /\ ~HasPipeOrNewline(headlines[k])
           /\ ~HasPipeOrNewline(authors[k]))
        => RoundTrips

C3_Witness ==
    /\ CsvWritten
    /\ Len(headlines) = 2
    /\ file # header
    /\ \A k \in 1..Len(headlines) :
          /\ WellFormedRecord(k)
          /\ ~HasPipeOrNewline(urls[k])
          /\ ~HasPipeOrNewline(headlines[k])
          /\ ~HasPipeOrNewline(authors[k])

\* The first three letters of the first run of letters, in lower case
IsLetter(c) == \E j \in 1..26 : c = UpperCase[j] \/ c = LowerCase[j]
RECURSIVE LetterRun(_)
LetterRun(s) ==
    IF s # <<>> /\ IsLetter(Head(s)) THEN <<Head(s)>> \o LetterRun(Tail(s)) ELSE <<>>
RECURSIVE FirstWord(_)
FirstWord(s) ==
    IF s = <<>> THEN <<>>
    ELSE IF IsLetter(Head(s)) THEN LetterRun(s)
    ELSE FirstWord(Tail(s))
MonthToken(s) == toLowerCase(substr0(FirstWord(s), 3))

\* A raw date with no digit run, or whose month token is none of jan..dec
Malformed(s) ==
    \/ \A k \in 1..Len(s) : ~IsDigit(s[k])
    \/ \A m \in 1..12 : monthNames[m] # MonthToken(s)

\* C4: a raw date with no digit run or with no month token ends the
\* conversion in an error, so that saveToCsv never writes a data line for a
\* record with such a raw date.
C4_MalformedDateNeverWritten ==
    (pc \in {"appendFile", "readFile", "done", "rejected"})
        => \A k \in 1..i : ~Malformed(dates[k])

\* C5: when the header write or a line append of saveToCsv failed, the run
\* still invokes saveToDatabase before it ends.
C5_StoreWrittenAfterSinkFailure ==
    (pc = "rejected" /\ failure \in {"writeFile", "appendFile"})
        => createState # "none"

\* Days of month m (1..12) of year y
DaysOf(m, y) ==
    CASE m \in {4, 6, 9, 11} -> 30
      [] m = 2 -> IF y % 4 = 0 /\ (y % 100 # 0 \/ y % 400 = 0) THEN 29 ELSE 28
      [] OTHER -> 31

\* C6: a raw date that begins with the m-th month name, in any letter case,
\* in full or abbreviated, and whose first digit run is a day d of that month
\* in the current year Y, is converted to Y/m/d without zero padding.
C6_ValidDateNormalized ==
    (dateOut # <<>> /\ inMonth \in 1..12 /\ inDay \in 1..DaysOf(inMonth, year))
        => dateOut = NatToString(year) \o <<"/">> \o NatToString(inMonth)
                        \o <<"/">> \o NatToString(inDay)

C6_Witness ==
    /\ dateOut # <<>>
    /\ year = 2024
    /\ inMonth = 2
    /\ inDay = 29
    /\ rawIn = <<"F", "E", "B", "R", "U", "A", "R", "Y", " ", "2", "9", ",", " ", "7">>

\* Runs so far whose inserts all ran
PersistedRuns ==
    completed + (IF createState = "ok" /\ AllInsertsDone THEN 1 ELSE 0)

\* After k runs that persisted the page's N records the table holds k * N rows
RowsAccumulate ==
    (~lostInsert /\ (createState # "ok" \/ AllInsertsDone))
        => BagCardinality(table) = PersistedRuns * Len(page)

\* C7: after k complete runs on the same batch of N records the table holds
\* k * N rows, so the count check passes only on the first run that persists
\* the batch when N > 0.
C7_AccumulatesAndPassesOnce ==
    /\ RowsAccumulate
    /\ (countResult.passed /\ Len(page) > 0) => completed = 0

\* C8 as claimed: every check is evaluated for every data line, and the count
\* is queried, whatever the other checks found.
C8_NoCheckSuppressed ==
    report.verified
        => /\ \A k \in 1..Len(report.lines) : report.lines[k].evaluated = AllChecks
           /\ countState # "none"

StartsWithDigit(s) == s # <<>> /\ IsDigit(s[1])

\* Number of fields of a data line: its pipes plus one
FieldCount(line) == Cardinality({k \in 1..Len(line) : line[k] = "|"}) + 1

\* C8: in a run that reaches verification the header matches; every data line
\* gets the field-count check; a line of 5 fields gets the id, URL, headline,
\* author and date checks, each logged whatever the others found; a line with
\* another number of fields gets only the field-count error, and the lines
\* after it are still checked; the count is queried.
C8_OnlyFieldCountSuppresses ==
    report.verified
        => /\ report.headerOk
           /\ countState # "none"
           /\ Len(report.lines) = Len(DataLines(file))
           /\ \A k \in 1..Len(report.lines) :
                 LET line == DataLines(file)[k]
                     fields == Fields(line)
                     log == report.lines[k]
                 IN IF FieldCount(line) = 5
                    THEN /\ log.evaluated = AllChecks
                         /\ "fields" \notin log.errors
                         /\ "id" \in log.errors <=> ~StartsWithDigit(fields[1])
                         /\ "url" \in log.errors <=> ~startsWith(fields[2], Http)
                         /\ "headline" \in log.errors <=> fields[3] = <<>>
                         /\ "author" \in log.errors <=> fields[4] = <<>>
                         /\ "date" \in log.errors <=> fields[5] = <<>>
                    ELSE /\ log.evaluated = {"fields"}
                         /\ log.errors = {"fields"}

C8_Witness ==
    /\ report.verified
    /\ Len(report.lines) = 2
    /\ report.lines[1].evaluated = {"fields"}
    /\ report.lines[2].errors = {"url", "author"}

\* The records of the page as extracted: url, headline, author, raw date
Extracted ==
    [k \in 1..Len(page) |->
        <<page[k].url, page[k].headline, page[k].author, page[k].date>>]

\* C9: when the table creation succeeds saveToDatabase issues exactly one
\* insert per record, in batch order, with the url, headline, author and the
\* raw date as extracted; the saveToCsv call before it changes no raw date.
C9_InsertsCarryRawDates ==
    (driver = "runTests" /\ createState = "ok") => inserts = Extracted

C9_Witness ==
    /\ driver = "runTests"
    /\ createState = "ok"
    /\ page = <<Plain, Piped>>
    /\ file = header \o LineOf(1, 1) \o LineOf(2, 2)
    /\ inserts[2][4] = <<"M", "a", "r", " ", "1", "4">>

\* C10: once scrape has returned or rejected, no browser session is open.
C10_SessionClosedOnEveryPath ==
    pc \notin {"goto", "evaluate", "close"} => openSessions = 0

====
